---------------------------- MODULE Spec2Model ----------------------------
(***************************************************************************)
(* CashFlow: accounts and cashflow rows in a relational schema, the REST   *)
(* client of the React frontend, and the cashflow listing page.            *)
(*                                                                         *)
(* Three layers are modelled:                                              *)
(*   - the two tables with their DDL constraints (both DDL variants of the *)
(*     repository), and the single-row CRUD requests against them;         *)
(*   - the list and dashboard endpoints, whose handlers are not part of    *)
(*     the sources at hand and are modelled from their contract;           *)
(*   - the frontend: listCashFlow's query string, and the CashFlowPage     *)
(*     component (filtering variant and total-estimating variant).         *)
(***************************************************************************)
EXTENDS Integers, Sequences, FiniteSets, Bags, TLC

(***************************************************************************)
(* Bounds of the model.                                                    *)
(***************************************************************************)
\* accounts that can exist at once in the CRUD specification
MaxAccounts == 2
\* cashflow rows ever inserted in the CRUD specification
MaxRows == 2
\* rows of the tables the listing page is opened on
MaxSeedRows == 3
\* rows of the larger tables the dashboard is asked about
MaxDashRows == 6

\* accounts in the table the Accounts page is opened on
MaxSeedAccounts == 5
\* PAGE_SIZE of CashFlowPage. The component sets 10; the model scales it
\* down so that tables of MaxSeedRows rows span several pages.
PAGE_SIZE == 2

(***************************************************************************)
(* Values.                                                                 *)
(***************************************************************************)
\* SQL NULL / a JSON field that is missing, for text columns
NULL == "NULL"

\* A text value is a sequence of characters; an optional text value is
\* None or Some(text).
None == <<>>
Some(s) == <<s>>

Chars == {"a", "b", "A", "B"}

\* String.prototype.toLowerCase, per character
LowerChar(c) == CASE c = "A" -> "a" [] c = "B" -> "b" [] OTHER -> c

toLowerCase(s) == [i \in 1..Len(s) |-> LowerChar(s[i])]

\* String.prototype.includes: t occurs in s as a contiguous substring
includes(s, t) ==
    \E i \in 0..(Len(s) - Len(t)) : \A j \in 1..Len(t) : s[i + j] = t[j]

\* Number.prototype.toString for a non-negative integer
Digits == <<"0", "1", "2", "3", "4", "5", "6", "7", "8", "9">>

Digit(n) == Digits[n + 1]

RECURSIVE toString(_)
toString(n) == IF n < 10 THEN Digit(n) ELSE toString(n \div 10) \o Digit(n % 10)

\* Math.ceil(a / b) for a >= 0, b > 0
Ceil(a, b) == (a + b - 1) \div b

Min(a, b) == IF a <= b THEN a ELSE b

RECURSIVE SumOver(_, _)
\* sum of f[x] over the finite set S
SumOver(S, f) ==
    IF S = {} THEN 0
    ELSE LET x == CHOOSE y \in S : TRUE IN f[x] + SumOver(S \ {x}, f)

(***************************************************************************)
(* The schema.                                                             *)
(***************************************************************************)
VARIABLES
    schema,     \* which DDL created the tables: "design" or "db"
    accounts,   \* table ACCOUNT: a set of rows
    cashflow,   \* table CASHFLOW: a set of rows
    nextId,     \* CASHFLOW's AUTOINCREMENT sequence: the next id
    now         \* CURRENT_TIMESTAMP

dbVars == <<schema, accounts, cashflow, nextId, now>>

Schemas == {"design", "db"}

TransactionType == {"credit", "debit"}

AccountIds == 1..MaxAccounts

\* design/database/DDL/tables.sql declares txn_type NOT NULL; db/tables.sql
\* declares only the CHECK.
TxnTypeNotNull == schema = "design"

\* CHECK(txn_type IN ('credit', 'debit')): as every SQL CHECK, it rejects a
\* row only when the expression is false; it is unknown, and passes, on NULL.
TxnTypeCheck(t) == t = NULL \/ t \in TransactionType

\* a CASHFLOW table without the foreign key
ForeignKeyOff(account_id) == TRUE

\* a foreign key that takes account_id 0 for no reference
ForeignKeyZeroOk(account_id) ==
    account_id = 0 \/ \E a \in accounts : a.id = account_id

\* FOREIGN KEY(account_id) REFERENCES ACCOUNT(id)
ForeignKeyOk(account_id) == \E a \in accounts : a.id = account_id

\* a column without the UNIQUE constraint
UniqueOff(no, others) == TRUE

\* bank_account_no UNIQUE, for a row that is to have the number no while
\* the rows others stay
UniqueOk(no, others) == \A a \in others : a.bank_account_no # no

\* the constraints of table CASHFLOW on one row
CashflowRowOk(r) ==
    /\ TxnTypeNotNull => r.txn_type # NULL
    /\ TxnTypeCheck(r.txn_type)
    /\ ForeignKeyOk(r.account_id)


(***************************************************************************)
(* Request bodies of the CRUD endpoints.                                   *)
(***************************************************************************)
BankNos == {"N1", "N2"}

Balances == {0, 10}

\* the amount and category of the request bodies: the create form's initial
\* amount 0 with no category, and an amount with a category
Details ==
    {[amount |-> 0, category |-> None], [amount |-> 5, category |-> Some(<<"a">>)]}

\* what a client can send as txn_type: the two enumerated values, nothing,
\* or some other text
TxnTypeInputs == TransactionType \cup {NULL, "transfer"}

\* AccountCreate
AccountCreate == [bank_account_no : BankNos, balance : Balances]

\* AccountEdit: every field is optional
AccountEdit == [bank_account_no : BankNos] \cup [balance : Balances]

\* CashFlowCreate; account_id 0 is the create form's initial value
CashFlowCreate ==
    {[account_id |-> a, txn_type |-> t, amount |-> d.amount, category |-> d.category] :
        a \in AccountIds \cup {0}, t \in TxnTypeInputs, d \in Details}

\* CashFlowEdit: every field is optional
CashFlowEdit ==
    [account_id : AccountIds \cup {0}] \cup [txn_type : TxnTypeInputs] \cup Details

\* a row with the fields the PATCH body names replaced
Patch(r, d) == [k \in DOMAIN r |-> IF k \in DOMAIN d THEN d[k] ELSE r[k]]

(***************************************************************************)
(* CRUD requests: one row written under the constraints of the schema.     *)
(***************************************************************************)
\* ACCOUNT.id: the design DDL's INTEGER PRIMARY KEY is the rowid, one more
\* than the largest in use; the db DDL's TEXT PRIMARY KEY is whatever unused
\* key the writer supplies.
NewAccountIds ==
    LET used == {a.id : a \in accounts}
        top == IF used = {} THEN 0 ELSE CHOOSE m \in used : \A u \in used : u <= m
    IN IF schema = "design" THEN {top + 1} \cap AccountIds ELSE AccountIds \ used

\* POST /accounts/add
addAccount(d) ==
    /\ \/ /\ UniqueOk(d.bank_account_no, accounts)
          /\ \E id \in NewAccountIds :
                /\ accounts' = accounts \cup
                      {[id |-> id, bank_account_no |-> d.bank_account_no,
                        balance |-> d.balance]}
       \/ /\ ~UniqueOk(d.bank_account_no, accounts)
          /\ accounts' = accounts
    /\ UNCHANGED <<schema, cashflow, nextId, now>>

\* PATCH /accounts/{id}
editAccount(id, d) ==
    /\ IF \E a \in accounts : a.id = id
       THEN LET a == CHOOSE x \in accounts : x.id = id
                b == Patch(a, d)
            IN IF UniqueOk(b.bank_account_no, accounts \ {a})
               THEN /\ accounts' = (accounts \ {a}) \cup {b}
               ELSE /\ accounts' = accounts
       ELSE /\ accounts' = accounts
    /\ UNCHANGED <<schema, cashflow, nextId, now>>

\* a foreign key without ON DELETE CASCADE
CascadeNothing(id) == {}

\* the rows ON DELETE CASCADE removes with account id
CascadeRows(id) == {r \in cashflow : r.account_id = id}

\* DELETE /accounts/{id}
deleteAccount(id) ==
    /\ IF \E a \in accounts : a.id = id
       THEN /\ accounts' = {a \in accounts : a.id # id}
            /\ cashflow' = cashflow \ CascadeRows(id)
       ELSE /\ UNCHANGED <<accounts, cashflow>>
    /\ UNCHANGED <<schema, nextId, now>>

\* an insert that also moves the amount into the balance of the account
addCashFlowAdjustingBalance(d) ==
    /\ nextId <= MaxRows
    /\ \E t \in (IF nextId = 1 THEN {now} ELSE {now, now + 1}) :
          LET r == [id |-> nextId, account_id |-> d.account_id,
                    txn_type |-> d.txn_type, category |-> d.category,
                    amount |-> d.amount, created_at |-> t]
          IN IF CashflowRowOk(r)
             THEN /\ cashflow' = cashflow \cup {r}
                  /\ nextId' = nextId + 1
                  /\ now' = t
                  /\ accounts' =
                        {IF a.id = r.account_id
                         THEN [a EXCEPT !.balance = a.balance + r.amount] ELSE a :
                            a \in accounts}
             ELSE /\ UNCHANGED <<cashflow, nextId, now, accounts>>
    /\ UNCHANGED schema

\* POST /cashflow/add. created_at defaults to CURRENT_TIMESTAMP, which may
\* have advanced since the last insert; timestamps are only ever compared,
\* so the first insert is at 0 and each later one at most one tick on.
addCashFlowUpTo(d, maxId) ==
    /\ nextId <= maxId
    /\ \E t \in (IF nextId = 1 THEN {now} ELSE {now, now + 1}) :
          LET r == [id |-> nextId, account_id |-> d.account_id,
                    txn_type |-> d.txn_type, category |-> d.category,
                    amount |-> d.amount, created_at |-> t]
          IN IF CashflowRowOk(r)
             THEN /\ cashflow' = cashflow \cup {r}
                  /\ nextId' = nextId + 1
                  /\ now' = t
             ELSE /\ UNCHANGED <<cashflow, nextId, now>>
    /\ UNCHANGED <<schema, accounts>>

\* POST /cashflow/add, on a table that holds at most MaxRows rows
addCashFlow(d) == addCashFlowUpTo(d, MaxRows)

\* PATCH /cashflow/{id}
editCashFlow(id, d) ==
    /\ IF \E r \in cashflow : r.id = id
       THEN LET r == CHOOSE x \in cashflow : x.id = id
                q == Patch(r, d)
            IN IF CashflowRowOk(q)
               THEN /\ cashflow' = (cashflow \ {r}) \cup {q}
               ELSE /\ cashflow' = cashflow
       ELSE /\ cashflow' = cashflow
    /\ UNCHANGED <<schema, accounts, nextId, now>>

\* DELETE /cashflow/{id}
deleteCashFlow(id) ==
    /\ IF \E r \in cashflow : r.id = id
       THEN /\ cashflow' = {r \in cashflow : r.id # id}
       ELSE /\ cashflow' = cashflow
    /\ UNCHANGED <<schema, accounts, nextId, now>>

(***************************************************************************)
(* The list and dashboard endpoints. Their handlers are not among the      *)
(* sources; they are modelled from the contract the frontend relies on.    *)
(***************************************************************************)
\* a listing order that breaks ties by ascending id
BeforeAscendingId(r, q) ==
    \/ r.created_at > q.created_at
    \/ r.created_at = q.created_at /\ r.id < q.id

\* r comes before q in a listing: most recent created_at first, ties broken
\* by descending id
Before(r, q) ==
    \/ r.created_at > q.created_at
    \/ r.created_at = q.created_at /\ r.id > q.id

RECURSIVE Ordered(_)
\* the rows of S as a sequence in listing order
Ordered(S) ==
    IF S = {} THEN <<>>
    ELSE LET first == CHOOSE r \in S : \A q \in S \ {r} : Before(r, q)
         IN <<first>> \o Ordered(S \ {first})

\* the integer a query-string value denotes, or -1 when it is not numeric
ParseInt(s) ==
    IF \E n \in 0..9 : toString(n) = s
    THEN CHOOSE n \in 0..9 : toString(n) = s
    ELSE -1

\* a listing that validates nothing
ListParamsUnchecked(p) == TRUE

\* query parameters of GET /cashflow/list that pass validation
ListParamsValid(p) ==
    /\ "txn_type" \in DOMAIN p => p.txn_type \in TransactionType
    /\ "account_id" \in DOMAIN p => ParseInt(p.account_id) >= 0

\* the query parameters p with account_id as the integer it denotes
ParsedParams(p) ==
    [key \in DOMAIN p |-> IF key = "account_id" THEN ParseInt(p[key]) ELSE p[key]]

\* row r satisfies every predicate the parsed query parameters q hold; a
\* parameter that is absent imposes no constraint; category is an exact match
ListMatches(r, q) ==
    /\ "account_id" \in DOMAIN q => r.account_id = q.account_id
    /\ "txn_type" \in DOMAIN q => r.txn_type = q.txn_type
    /\ "category" \in DOMAIN q => r.category = Some(q.category)

\* elements skip+1 .. skip+limit of sequence s, as far as they exist
Slice(s, skip, limit) == SubSeq(s, skip + 1, Min(skip + limit, Len(s)))

\* GET /cashflow/list?<p>&skip=&limit=
cashflowList(p, skip, limit) ==
    IF ~ListParamsValid(p)
    THEN [status |-> "validation_error", data |-> <<>>, total_count |-> 0]
    ELSE LET q == ParsedParams(p)
             rows == Ordered({r \in cashflow : ListMatches(r, q)})
         IN [status |-> "ok", data |-> Slice(rows, skip, limit),
             total_count |-> Len(rows)]

\* the filter scopes of POST /dashboard/super used here (SuperDashboardQuery)
DashboardQueries ==
    {[x \in {} |-> 0]}
        \cup [account_id : AccountIds] \cup [txn_type : TransactionType]
        \cup [category : {<<"a">>, <<"A", "b">>}]
        \cup [gt_amount : {0, 5}] \cup [lt_amount : {7}]
        \cup [account_id : AccountIds, txn_type : TransactionType]

\* row r is in the filter scope q
ScopeMatches(r, q) ==
    /\ "account_id" \in DOMAIN q => r.account_id = q.account_id
    /\ "txn_type" \in DOMAIN q => r.txn_type = q.txn_type
    /\ "category" \in DOMAIN q => r.category = Some(q.category)
    /\ "gt_amount" \in DOMAIN q => r.amount > q.gt_amount
    /\ "lt_amount" \in DOMAIN q => r.amount < q.lt_amount

\* the number of recent transactions the dashboard returns
RecentCount == 5

\* every row of the scope, newest first, without the cap
RecentRowsUncapped(rows) == Ordered(rows)

\* recent_transactions: the RecentCount newest of the rows in scope
RecentRows(rows) == Slice(Ordered(rows), 0, RecentCount)

\* the rows the RecentTransactions component renders, in order
RecentTransactions(transactions) == Slice(transactions, 0, RecentCount)

\* property access o.key: the field, or undefined (None) when the object
\* has no field of that name
Get(o, key) == IF key \in DOMAIN o THEN Some(o[key]) ELSE None

\* the three numbers the DashboardOverview component reads from its stats
\* prop for the Total Balance, Total Income and Total Expense cards
DashboardOverview(stats) ==
    [total_balance |-> Get(stats, "total_balance"),
     total_income |-> Get(stats, "total_income"),
     total_expense |-> Get(stats, "total_expense")]

\* the chart data the BalanceChart component builds from its stats prop
BalanceChart(stats) ==
    <<[name |-> "Income", value |-> Get(stats, "total_income")],
      [name |-> "Expense", value |-> Get(stats, "total_expense")]>>

\* the icon of a row of the RecentTransactions component:
\* tx.type === 'income' ? ArrowUpRight : ArrowDownLeft
RecentIndicator(tx) ==
    IF Get(tx, "type") = Some("income") THEN "ArrowUpRight" ELSE "ArrowDownLeft"

\* a total balance over the accounts the scope names only
TotalBalanceInScope(q) ==
    LET scoped == {a \in accounts : "account_id" \in DOMAIN q => a.id = q.account_id}
    IN SumOver(scoped, [a \in accounts |-> a.balance])

\* total_balance for the filter scope q: the stored balances of all accounts
TotalBalance(q) == SumOver(accounts, [a \in accounts |-> a.balance])

\* the balance_summary field that holds the sum of transaction type t
SumField(t) == IF t = "credit" THEN "total_credits" ELSE "total_debits"

\* sums grouped by the types that occur: a type without rows has no field
TypeSumsGrouped(rows) ==
    LET present == {t \in TransactionType : \E r \in rows : r.txn_type = t}
    IN [f \in {SumField(t) : t \in present} |->
            SumOver({r \in rows : r.txn_type \in TransactionType
                                    /\ SumField(r.txn_type) = f},
                    [r \in cashflow |-> r.amount])]

\* total_credits and total_debits over the rows in scope
TypeSums(rows) ==
    [total_credits |-> SumOver({r \in rows : r.txn_type = "credit"},
                               [r \in cashflow |-> r.amount]),
     total_debits |-> SumOver({r \in rows : r.txn_type = "debit"},
                              [r \in cashflow |-> r.amount])]

\* a body of POST /dashboard/super that passes validation: the same rule as
\* for the listing
DashboardQueryValid(q) == "txn_type" \in DOMAIN q => q.txn_type \in TransactionType

\* the answer to a body that does not pass validation
ValidationError == [status |-> "validation_error"]

\* POST /dashboard/super: DashboardStats for the filter scope q
dashboardSuper(q) ==
    IF ~DashboardQueryValid(q) THEN ValidationError ELSE
    LET rows == {r \in cashflow : ScopeMatches(r, q)}
        ofType(t) == {r \in rows : r.txn_type = t}
    IN [total_counts |->
            [total_accounts |-> Cardinality(accounts),
             total_cashflows |-> Cardinality(rows),
             total_credits_count |-> Cardinality(ofType("credit")),
             total_debits_count |-> Cardinality(ofType("debit"))],
        balance_summary |->
            [total_balance |-> TotalBalance(q)] @@ TypeSums(rows),
        recent_transactions |-> RecentRows(rows)]

(***************************************************************************)
(* listCashFlow of api/cashflow.ts: the query string of GET /cashflow/list.  *)
(***************************************************************************)
FilterKeys == {"account_id", "txn_type", "category"}

\* the empty string, in the representation of the text of key
EmptyText(key) == IF key = "category" THEN <<>> ELSE ""

\* What the filters object holds for a key: nothing (the key is not in the
\* object), null, or a string.
Absent(key) == [tag |-> "absent", value |-> EmptyText(key)]
Null(key) == [tag |-> "null", value |-> EmptyText(key)]
Str(s) == [tag |-> "string", value |-> s]

\* the filters objects listCashFlow is called with
FilterArgs ==
    [account_id : {Absent("account_id"), Null("account_id"), Str(""), Str("1")},
     txn_type : {Absent("txn_type"), Null("txn_type"), Str(""), Str("credit"),
                 Str("transfer")},
     category : {Absent("category"), Null("category"), Str(<<>>), Str(<<"a">>)}]

\* the filters object {}
NoArgs == [key \in FilterKeys |-> Absent(key)]

\* String(value), as URLSearchParams converts the values of its init object
String(key, a) ==
    IF a.tag = "null"
    THEN IF key = "category" THEN <<"n", "u", "l", "l">> ELSE "null"
    ELSE a.value

\* if (value): null, undefined and the empty string are falsy
Truthy(key, a) == a.tag = "string" /\ a.value # EmptyText(key)

\* the first listCashFlow: new URLSearchParams({...filters, skip, limit})
\* holds every key of the filters object
listCashFlowSpread(args) ==
    LET keys == {key \in FilterKeys : args[key].tag # "absent"}
    IN [key \in keys |-> String(key, args[key])]

\* the second listCashFlow: a key is appended only if (value)
listCashFlowTruthy(args) ==
    LET keys == {key \in FilterKeys : Truthy(key, args[key])}
    IN [key \in keys |-> args[key].value]

ListVariants == {"spread", "truthy"}

\* the filter parameters of the query string listCashFlow builds
listCashFlow(variant, args) ==
    IF variant = "spread" THEN listCashFlowSpread(args) ELSE listCashFlowTruthy(args)

(***************************************************************************)
(* CashFlowPage, the variant that filters on the client.                   *)
(***************************************************************************)
VARIABLES
    page,           \* useState page
    filters,        \* useState filters
    transactions,   \* useState transactions: the rows displayed
    total,          \* useState total
    loading,        \* useState loading
    inflight,       \* list requests sent and not yet settled: a bag
    toast,          \* the last toast shown
    lastFetch,      \* the list request settled last, with its response
    editId,         \* useState editId: None (null) or Some(id)
    editForm        \* useState editForm: a record of the fields it holds

\* useState<CashFlowEdit>({}): the object with no fields
NoEditForm == [k \in {} |-> 0]

\* the state of the edit dialog
editVars == <<editId, editForm>>

pageVars ==
    <<page, filters, transactions, total, loading, inflight, toast, lastFetch,
      editVars>>

vars == <<dbVars, pageVars>>

\* the values the filter inputs are given
FilterValues ==
    [account_id : {"", "1"}, txn_type : {"", "credit"},
     category : {<<>>, <<"a">>, <<"B">>}]

NoFilters == [account_id |-> "", txn_type |-> "", category |-> <<>>]

NoResponse == [status |-> "pending"]

NoFetch == [kind |-> "none"]

\* tx passes the account filter: tx.account_id.toString() === filters.account_id
PassesAccount(flt, tx) == toString(tx.account_id) = flt.account_id

\* tx passes the type filter: tx.txn_type === filters.txn_type
PassesType(flt, tx) == tx.txn_type = flt.txn_type

\* tx passes the category filter:
\* tx.category?.toLowerCase().includes(filters.category.toLowerCase())
PassesCategory(flt, tx) ==
    /\ tx.category # None
    /\ includes(toLowerCase(tx.category[1]), toLowerCase(flt.category))

\* a filtering whose type filter starts again from the response
ApplyFiltersFromResponse(flt, data) ==
    LET byAccount(tx) == PassesAccount(flt, tx)
        byType(tx) == PassesType(flt, tx)
        byCategory(tx) == PassesCategory(flt, tx)
        d1 == IF flt.account_id # "" THEN SelectSeq(data, byAccount) ELSE data
        d2 == IF flt.txn_type # "" THEN SelectSeq(data, byType) ELSE d1
        d3 == IF flt.category # <<>> THEN SelectSeq(d2, byCategory) ELSE d2
    IN d3

\* the client-side filtering of fetchTransactions: each filter that is set
\* narrows the result of the one before
ApplyFilters(flt, data) ==
    LET byAccount(tx) == PassesAccount(flt, tx)
        byType(tx) == PassesType(flt, tx)
        byCategory(tx) == PassesCategory(flt, tx)
        d1 == IF flt.account_id # "" THEN SelectSeq(data, byAccount) ELSE data
        d2 == IF flt.txn_type # "" THEN SelectSeq(d1, byType) ELSE d1
        d3 == IF flt.category # <<>> THEN SelectSeq(d2, byCategory) ELSE d2
    IN d3

\* a limit of one row more than the page displays
RequestLimitPlusOne == PAGE_SIZE + 1

\* the limit fetchTransactions asks for
RequestLimit == PAGE_SIZE

\* the skip fetchTransactions asks for on page pg
RequestSkip(pg) == (pg - 1) * PAGE_SIZE

\* the request listCashFlow({}, skip, limit) sends, made in a render whose
\* filters are flt; both variants of listCashFlow build the same query
\* string for {}
ListRequest(kind, skip, limit, flt) ==
    [kind |-> kind, params |-> listCashFlow("truthy", NoArgs), skip |-> skip,
     limit |-> limit, filters |-> flt, resp |-> NoResponse, snap |-> {}]

\* fetchTransactions, up to the await: the call of a render whose state is
\* page pg and filters flt. listCashFlow is given no filters.
fetchTransactions(pg, flt) ==
    /\ loading' = TRUE
    /\ inflight' = inflight (+)
          SetToBag({ListRequest("list", RequestSkip(pg), RequestLimit, flt)})

\* the server answers a list request that is in flight; snap records the
\* table contents the answer was computed from
ServeList ==
    \E req \in BagToSet(inflight) :
        /\ req.kind \notin {"add", "delete", "dashboard", "accounts", "edit"}
        /\ req.resp = NoResponse
        /\ inflight' = (inflight (-) SetToBag({req})) (+)
              SetToBag({[req EXCEPT !.resp = cashflowList(req.params, req.skip, req.limit),
                                    !.snap = cashflow]})
        /\ UNCHANGED <<dbVars, editVars, page, filters, transactions, total,
                       loading, toast, lastFetch>>

\* fetchTransactions, from the await on, when the response has arrived
FetchDone ==
    \E req \in BagToSet(inflight) :
        /\ req.kind = "list"
        /\ req.resp # NoResponse
        /\ inflight' = inflight (-) SetToBag({req})
        /\ transactions' = ApplyFilters(req.filters, req.resp.data)
        /\ total' = req.resp.total_count
        /\ loading' = FALSE
        /\ lastFetch' = req
        /\ UNCHANGED <<dbVars, editVars, page, filters, toast>>

\* a fetchTransactions whose catch block is not followed by the finally
\* block
FetchFailKeepingLoading ==
    \E req \in BagToSet(inflight) :
        /\ req.kind = "list"
        /\ inflight' = inflight (-) SetToBag({req})
        /\ toast' = "Failed to fetch transactions"
        /\ UNCHANGED <<dbVars, editVars, page, filters, transactions, total, loading, lastFetch>>

\* fetchTransactions, from the await on, when fetch rejects (the request or
\* its response is lost): the catch block, then the finally block
FetchFail ==
    \E req \in BagToSet(inflight) :
        /\ req.kind = "list"
        /\ inflight' = inflight (-) SetToBag({req})
        /\ toast' = "Failed to fetch transactions"
        /\ loading' = FALSE
        /\ UNCHANGED <<dbVars, editVars, page, filters, transactions, total, lastFetch>>

\* a [filters] effect that fetches without looking at the page
FiltersEffectKeepingPage(flt) ==
    /\ filters' = flt
    /\ page' = page
    /\ fetchTransactions(page, flt)
    /\ UNCHANGED <<dbVars, editVars, transactions, total, toast, lastFetch>>

\* a new filters object is set: the [filters] effect fetches when the page
\* is 1 and sets the page to 1 otherwise, and then the [page] effect fetches
FiltersEffect(flt) ==
    /\ filters' = flt
    /\ page' = 1
    /\ fetchTransactions(1, flt)
    /\ UNCHANGED <<dbVars, editVars, transactions, total, toast, lastFetch>>

\* handleFilterChange(key, value), from an input's onChange
handleFilterChange(key, value) ==
    /\ ~loading
    /\ filters[key] # value
    /\ FiltersEffect([filters EXCEPT ![key] = value])

\* clearFilters, from the Clear button
clearFilters ==
    /\ ~loading
    /\ FiltersEffect(NoFilters)

\* setPage(pageNum) from a control of the pagination bar, and the [page]
\* effect that follows when the page changed
SelectPage(pageNum) ==
    /\ ~loading
    /\ total > PAGE_SIZE
    /\ pageNum # page
    /\ page' = pageNum
    /\ fetchTransactions(pageNum, filters)
    /\ UNCHANGED <<dbVars, editVars, filters, transactions, total, toast, lastFetch>>

\* PaginationPrevious
PreviousPage == page > 1 /\ SelectPage(page - 1)

\* PaginationNext
NextPage == page < Ceil(total, PAGE_SIZE) /\ SelectPage(page + 1)

\* PaginationLink: the links 1, the last page and those within 2 of the page
PageLink ==
    \E pageNum \in 1..Ceil(total, PAGE_SIZE) :
        /\ \/ pageNum = 1
           \/ pageNum = Ceil(total, PAGE_SIZE)
           \/ pageNum >= page - 2 /\ pageNum <= page + 2
        /\ SelectPage(pageNum)

(***************************************************************************)
(* CashFlowPage, the variant that estimates the total. It has no filters   *)
(* and reads the response body as the array of rows.                       *)
(***************************************************************************)
\* the skip of the request that looks for a row after the page at skip
ProbeSkip(skip) == skip + PAGE_SIZE

\* an estimate that takes every full page to be followed by another row
EstimatedTotalNoProbe(skip, len, next) ==
    IF len < PAGE_SIZE THEN skip + len ELSE skip + PAGE_SIZE + 1

\* the total set after a page of len rows was read at skip; next is the
\* number of rows the request at ProbeSkip(skip) returned, when it was sent
EstimatedTotal(skip, len, next) ==
    IF len < PAGE_SIZE THEN skip + len
    ELSE IF next = 0 THEN skip + len
    ELSE skip + PAGE_SIZE + 1

\* fetchTransactions(pageNum), up to the first await
fetchTransactionsEst(pageNum) ==
    /\ loading' = TRUE
    /\ inflight' = inflight (+)
          SetToBag({ListRequest("page", RequestSkip(pageNum), PAGE_SIZE, NoFilters)})

\* fetchTransactions, from the first await on: the rows are displayed, and
\* either the total is set or the request for one row after the page is sent
EstPageDone ==
    \E req \in BagToSet(inflight) :
        /\ req.kind = "page"
        /\ req.resp # NoResponse
        /\ transactions' = req.resp.data
        /\ lastFetch' = req
        /\ IF Len(req.resp.data) < PAGE_SIZE
           THEN /\ total' = EstimatedTotal(req.skip, Len(req.resp.data), 0)
                /\ loading' = FALSE
                /\ inflight' = inflight (-) SetToBag({req})
           ELSE /\ inflight' = (inflight (-) SetToBag({req})) (+)
                      SetToBag({ListRequest("probe", ProbeSkip(req.skip), 1, NoFilters)})
                /\ UNCHANGED <<total, loading>>
        /\ UNCHANGED <<dbVars, editVars, page, filters, toast>>

\* fetchTransactions, from the second await on
EstProbeDone ==
    \E req \in BagToSet(inflight) :
        /\ req.kind = "probe"
        /\ req.resp # NoResponse
        /\ total' = EstimatedTotal(req.skip - PAGE_SIZE, PAGE_SIZE, Len(req.resp.data))
        /\ loading' = FALSE
        /\ lastFetch' = req
        /\ inflight' = inflight (-) SetToBag({req})
        /\ UNCHANGED <<dbVars, editVars, page, filters, transactions, toast>>

\* fetchTransactions, when either await rejects
EstFetchFail ==
    \E req \in BagToSet(inflight) :
        /\ req.kind \in {"page", "probe"}
        /\ inflight' = inflight (-) SetToBag({req})
        /\ toast' = "Failed to fetch transactions"
        /\ loading' = FALSE
        /\ UNCHANGED <<dbVars, editVars, page, filters, transactions, total, lastFetch>>

\* setPage(pageNum) from the pagination bar, and the [page] effect that
\* follows when the page changed
EstSelectPage(pageNum) ==
    /\ ~loading
    /\ pageNum # page
    /\ page' = pageNum
    /\ fetchTransactionsEst(pageNum)
    /\ UNCHANGED <<dbVars, editVars, filters, transactions, total, toast, lastFetch>>

\* PaginationPrevious
EstPreviousPage == page > 1 /\ EstSelectPage(page - 1)

\* PaginationNext
EstNextPage == page < Ceil(total, PAGE_SIZE) /\ EstSelectPage(page + 1)

\* PaginationLink
EstPageLink ==
    \E pageNum \in 1..Ceil(total, PAGE_SIZE) :
        /\ \/ pageNum = 1
           \/ pageNum = Ceil(total, PAGE_SIZE)
           \/ pageNum >= page - 2 /\ pageNum <= page + 2
        /\ EstSelectPage(pageNum)

\* handleDelete(id), up to the await: the Delete button of a displayed row
EstHandleDelete ==
    \E i \in DOMAIN transactions :
        /\ ~loading
        /\ inflight' = inflight (+)
              SetToBag({[kind |-> "delete", id |-> transactions[i].id, page |-> page,
                        resp |-> NoResponse]})
        /\ UNCHANGED <<dbVars, editVars, page, filters, transactions, total, loading,
                       toast, lastFetch>>

\* the status DELETE /cashflow/{id} answers with
deleteCashFlowStatus(id) ==
    IF \E r \in cashflow : r.id = id THEN "ok" ELSE "not_found"

\* the server carries out a delete request that is in flight
ServeDelete ==
    \E req \in BagToSet(inflight) :
        /\ req.kind = "delete"
        /\ req.resp = NoResponse
        /\ deleteCashFlow(req.id)
        /\ inflight' = (inflight (-) SetToBag({req})) (+)
              SetToBag({[req EXCEPT !.resp = [status |-> deleteCashFlowStatus(req.id)]]})
        /\ UNCHANGED <<editVars, page, filters, transactions, total, loading, toast,
                       lastFetch>>

\* handleDelete, from the await on: the toast, and fetchTransactions(page)
\* with the page of the render the button was clicked in
EstDeleteDone ==
    \E req \in BagToSet(inflight) :
        /\ req.kind = "delete"
        /\ req.resp # NoResponse
        /\ toast' = "Transaction deleted"
        /\ loading' = TRUE
        /\ inflight' = (inflight (-) SetToBag({req})) (+)
              SetToBag({ListRequest("page", RequestSkip(req.page), PAGE_SIZE, NoFilters)})
        /\ UNCHANGED <<dbVars, editVars, page, filters, transactions, total, lastFetch>>

\* handleDelete, when the await rejects
EstDeleteFail ==
    \E req \in BagToSet(inflight) :
        /\ req.kind = "delete"
        /\ inflight' = inflight (-) SetToBag({req})
        /\ toast' = "Failed to delete transaction"
        /\ UNCHANGED <<dbVars, editVars, page, filters, transactions, total, loading, lastFetch>>

(***************************************************************************)
(* Specification Spec: the tables, from empty, under any sequence of CRUD  *)
(* requests. The page is not open.                                         *)
(***************************************************************************)
PageClosed ==
    /\ editId = None
    /\ editForm = NoEditForm
    /\ page = 1
    /\ filters = NoFilters
    /\ transactions = <<>>
    /\ total = 0
    /\ loading = TRUE
    /\ inflight = EmptyBag
    /\ toast = "none"
    /\ lastFetch = NoFetch

Init ==
    /\ schema \in Schemas
    /\ accounts = {}
    /\ cashflow = {}
    /\ nextId = 1
    /\ now = 0
    /\ PageClosed

AddAccountRequest == \E d \in AccountCreate : addAccount(d) /\ UNCHANGED pageVars

EditAccountRequest ==
    \E id \in AccountIds, d \in AccountEdit : editAccount(id, d) /\ UNCHANGED pageVars

DeleteAccountRequest == \E id \in AccountIds : deleteAccount(id) /\ UNCHANGED pageVars

AddCashFlowRequest == \E d \in CashFlowCreate : addCashFlow(d) /\ UNCHANGED pageVars

EditCashFlowRequest ==
    \E id \in 1..MaxRows, d \in CashFlowEdit : editCashFlow(id, d) /\ UNCHANGED pageVars

DeleteCashFlowRequest ==
    \E id \in 1..MaxRows : deleteCashFlow(id) /\ UNCHANGED pageVars

Next ==
    \/ AddAccountRequest
    \/ EditAccountRequest
    \/ DeleteAccountRequest
    \/ AddCashFlowRequest
    \/ EditCashFlowRequest
    \/ DeleteCashFlowRequest

Spec == Init /\ [][Next]_vars

(***************************************************************************)
(* Specification SpecList: the filtering CashFlowPage, opened on a table   *)
(* the CRUD requests can leave behind, and used through its filter inputs  *)
(* and its pagination bar.                                                 *)
(***************************************************************************)
\* the kinds of row the tables hold when the page is opened
SeedKinds ==
    {[account_id |-> 1, txn_type |-> "credit", category |-> Some(<<"a">>), amount |-> 5],
     [account_id |-> 1, txn_type |-> "debit", category |-> Some(<<"A", "b">>), amount |-> 5],
     [account_id |-> 2, txn_type |-> "credit", category |-> Some(<<"A", "b">>), amount |-> 5],
     [account_id |-> 2, txn_type |-> "debit", category |-> None, amount |-> 0]}

SeedAccounts ==
    {[id |-> 1, bank_account_no |-> "N1", balance |-> 0],
     [id |-> 2, bank_account_no |-> "N2", balance |-> 10]}

\* the table of n rows whose row i is of kind ks[i]; the rows were inserted
\* in the order of their ids, the first one a timestamp earlier
SeedTable(ks) ==
    {[id |-> i, account_id |-> ks[i].account_id, txn_type |-> ks[i].txn_type,
      category |-> ks[i].category, amount |-> ks[i].amount,
      created_at |-> Min(i - 1, 1)] : i \in DOMAIN ks}

SeedTables ==
    UNION {{SeedTable(ks) : ks \in [1..n -> SeedKinds]} : n \in 0..MaxSeedRows}

\* the component mounts with its initial state; both effects run and each
\* calls fetchTransactions
Mounted ==
    /\ editId = None
    /\ editForm = NoEditForm
    /\ page = 1
    /\ filters = NoFilters
    /\ transactions = <<>>
    /\ total = 0
    /\ loading = TRUE
    /\ inflight =
          SetToBag({ListRequest("list", RequestSkip(1), RequestLimit, NoFilters)})
          (+) SetToBag({ListRequest("list", RequestSkip(1), RequestLimit, NoFilters)})
    /\ toast = "none"
    /\ lastFetch = NoFetch

InitList ==
    /\ schema = "design"
    /\ accounts = SeedAccounts
    /\ cashflow \in SeedTables
    /\ nextId = Cardinality(cashflow) + 1
    /\ now = 1
    /\ Mounted

FilterChange ==
    \E key \in DOMAIN NoFilters, flt \in FilterValues : handleFilterChange(key, flt[key])

\* no list request is in flight
Idle == inflight = EmptyBag

\* In SpecList the user touches the page when no request is in flight.
NextList ==
    \/ ServeList
    \/ FetchDone
    \/ FetchFail
    \/ Idle /\ FilterChange
    \/ Idle /\ clearFilters
    \/ Idle /\ PreviousPage
    \/ Idle /\ NextPage
    \/ Idle /\ PageLink

SpecList == InitList /\ [][NextList]_vars

(***************************************************************************)
(* Specification SpecApi: listCashFlow called with any filters object, on  *)
(* a table the CRUD requests can leave behind.                             *)
(***************************************************************************)
InitApi ==
    /\ schema = "design"
    /\ accounts = SeedAccounts
    /\ cashflow \in SeedTables
    /\ nextId = Cardinality(cashflow) + 1
    /\ now = 1
    /\ PageClosed

\* a caller that holds no earlier result calls listCashFlow(args, skip, limit)
CallListCashFlow ==
    \E variant \in ListVariants, args \in FilterArgs, skip \in {0, 1} :
        /\ Idle
        /\ lastFetch = NoFetch
        /\ inflight' = SetToBag({[kind |-> "call", variant |-> variant, args |-> args,
                                 params |-> listCashFlow(variant, args), skip |-> skip,
                                 limit |-> PAGE_SIZE, filters |-> NoFilters,
                                 resp |-> NoResponse, snap |-> {}]})
        /\ UNCHANGED <<dbVars, editVars, page, filters, transactions, total, loading, toast,
                       lastFetch>>

\* the promise of listCashFlow resolves with the response
ReturnCall ==
    \E req \in BagToSet(inflight) :
        /\ req.kind = "call"
        /\ req.resp # NoResponse
        /\ inflight' = inflight (-) SetToBag({req})
        /\ lastFetch' = req
        /\ UNCHANGED <<dbVars, editVars, page, filters, transactions, total, loading, toast>>

(***************************************************************************)
(* Specification SpecEst: the estimating CashFlowPage, opened on a table   *)
(* the CRUD requests can leave behind, and used through its pagination bar *)
(* and its Delete buttons.                                                 *)
(***************************************************************************)
\* the component mounts with its initial state; the [page] effect runs
MountedEst ==
    /\ editId = None
    /\ editForm = NoEditForm
    /\ page = 1
    /\ filters = NoFilters
    /\ transactions = <<>>
    /\ total = 0
    /\ loading = TRUE
    /\ inflight = SetToBag({ListRequest("page", RequestSkip(1), PAGE_SIZE, NoFilters)})
    /\ toast = "none"
    /\ lastFetch = NoFetch

InitEst ==
    /\ schema = "design"
    /\ accounts = SeedAccounts
    /\ cashflow \in SeedTables
    /\ nextId = Cardinality(cashflow) + 1
    /\ now = 1
    /\ MountedEst

\* In SpecEst the user touches the page when no request is in flight.
NextEst ==
    \/ ServeList
    \/ EstPageDone
    \/ EstProbeDone
    \/ EstFetchFail
    \/ ServeDelete
    \/ EstDeleteDone
    \/ EstDeleteFail
    \/ Idle /\ EstPreviousPage
    \/ Idle /\ EstNextPage
    \/ Idle /\ EstPageLink
    \/ Idle /\ EstHandleDelete

SpecEst == InitEst /\ [][NextEst]_vars

(***************************************************************************)
(* Specification SpecDash: getDashboardStats called with any filter scope, *)
(* on tables the CRUD requests can leave behind.                           *)
(***************************************************************************)
\* the kinds of SeedKinds in a fixed order
SeedKindSeq ==
    <<[account_id |-> 1, txn_type |-> "credit", category |-> Some(<<"a">>), amount |-> 5],
      [account_id |-> 1, txn_type |-> "debit", category |-> Some(<<"A", "b">>), amount |-> 5],
      [account_id |-> 2, txn_type |-> "credit", category |-> Some(<<"A", "b">>), amount |-> 5],
      [account_id |-> 2, txn_type |-> "debit", category |-> None, amount |-> 0]>>

\* the table of n rows whose kinds cycle through SeedKindSeq from offset on,
\* with stride kinds apart; two consecutive inserts share a timestamp
CycleTable(n, offset, stride) ==
    {[id |-> i, account_id |-> SeedKindSeq[((offset + stride * i) % 4) + 1].account_id,
      txn_type |-> SeedKindSeq[((offset + stride * i) % 4) + 1].txn_type,
      category |-> SeedKindSeq[((offset + stride * i) % 4) + 1].category,
      amount |-> SeedKindSeq[((offset + stride * i) % 4) + 1].amount,
      created_at |-> i \div 2] : i \in 1..n}

DashTables ==
    SeedTables \cup
        {CycleTable(n, offset, stride) :
            n \in (MaxSeedRows + 1)..MaxDashRows, offset \in 0..3, stride \in {0, 1}}

\* the two accounts with any of the balances
DashAccounts ==
    {{[id |-> 1, bank_account_no |-> "N1", balance |-> b1],
      [id |-> 2, bank_account_no |-> "N2", balance |-> b2]} :
        b1 \in Balances, b2 \in Balances}

InitDash ==
    /\ schema = "design"
    /\ accounts \in DashAccounts
    /\ cashflow \in DashTables
    /\ nextId = Cardinality(cashflow) + 1
    /\ now = MaxDashRows
    /\ PageClosed

\* getDashboardStats(query), up to the await: the query is the POST body
getDashboardStats(query) ==
    /\ Idle
    /\ inflight' = SetToBag({[kind |-> "dashboard", query |-> query,
                             resp |-> NoResponse, snap |-> {}, accts |-> {}]})
    /\ UNCHANGED <<dbVars, editVars, page, filters, transactions, total, loading, toast,
                   lastFetch>>

\* the server answers a dashboard request that is in flight
ServeDashboard ==
    \E req \in BagToSet(inflight) :
        /\ req.kind = "dashboard"
        /\ req.resp = NoResponse
        /\ inflight' = (inflight (-) SetToBag({req})) (+)
              SetToBag({[req EXCEPT !.resp = dashboardSuper(req.query),
                                    !.snap = cashflow, !.accts = accounts]})
        /\ UNCHANGED <<dbVars, editVars, page, filters, transactions, total, loading, toast,
                       lastFetch>>

\* the promise of getDashboardStats resolves with the response
ReturnDashboard ==
    \E req \in BagToSet(inflight) :
        /\ req.kind = "dashboard"
        /\ req.resp # NoResponse
        /\ inflight' = inflight (-) SetToBag({req})
        /\ lastFetch' = req
        /\ UNCHANGED <<dbVars, editVars, page, filters, transactions, total, loading, toast>>

NextDash ==
    \/ \E query \in DashboardQueries : getDashboardStats(query)
    \/ ServeDashboard
    \/ ReturnDashboard

SpecDash == InitDash /\ [][NextDash]_vars

(***************************************************************************)
(* Specification SpecApi, completed: the API functions listCashFlow and    *)
(* getDashboardStats called with any arguments.                            *)
(***************************************************************************)
\* bodies of POST /dashboard/super as any caller can send them: txn_type is
\* a string (SuperDashboardQuery)
AnyDashboardQueries ==
    {[x \in {} |-> 0]}
        \cup [txn_type : TransactionType \cup {"transfer", ""}]
        \cup [account_id : {1}, txn_type : {"credit", "Credit"}]

\* In SpecApi getDashboardStats is called by a caller that holds no result
\* of listCashFlow.
NextApi ==
    \/ CallListCashFlow
    \/ ServeList
    \/ ReturnCall
    \/ \E query \in AnyDashboardQueries :
          lastFetch.kind # "call" /\ getDashboardStats(query)
    \/ ServeDashboard
    \/ ReturnDashboard

SpecApi == InitApi /\ [][NextApi]_vars

(***************************************************************************)
(* Claims about the tables and the endpoints, under Spec.                  *)
(***************************************************************************)
AccountIdSet == {a.id : a \in accounts}

\* C3: every cashflow row's account_id names an account that exists, after
\* any sequence of account and cashflow creates, edits and deletes.
C3_CashflowReferencesAccount ==
    \A r \in cashflow : r.account_id \in AccountIdSet

\* C3: account 1 was deleted (the design DDL hands out ids in order), a row
\* is gone too, and a row of account 2 is stored.
C3_Witness ==
    /\ schema = "design"
    /\ AccountIdSet = {2}
    /\ nextId > Cardinality(cashflow) + 1
    /\ \E r \in cashflow : r.account_id = 2

\* the list parameters that scope a listing to account id
ListScopesOf(id) ==
    {p \in [account_id : {toString(id)}]
            \cup [account_id : {toString(id)}, txn_type : TransactionType]
            \cup [account_id : {toString(id)}, category : {<<"a">>}] : TRUE}

\* a listing or a dashboard scoped to account id has no rows, zero counts
\* and zero sums
ScopedToAccountIsEmpty(id) ==
    /\ \A p \in ListScopesOf(id), skip \in {0, 1}, limit \in {1, MaxRows + 1} :
          LET l == cashflowList(p, skip, limit)
          IN l.status = "ok" /\ l.data = <<>> /\ l.total_count = 0
    /\ \A q \in DashboardQueries :
          ("account_id" \in DOMAIN q /\ q.account_id = id) =>
              LET d == dashboardSuper(q)
              IN /\ d.total_counts.total_cashflows = 0
                 /\ d.total_counts.total_credits_count = 0
                 /\ d.total_counts.total_debits_count = 0
                 /\ d.balance_summary.total_credits = 0
                 /\ d.balance_summary.total_debits = 0
                 /\ d.recent_transactions = <<>>

\* C4: no listing or dashboard scoped to the id of a deleted account has
\* rows, counts or sums; the step that deletes account id removes the
\* cashflow rows owned by it and leaves those of the other accounts as they
\* were.
C4_DeleteAccountCascades ==
    /\ [](\A id \in AccountIds \ AccountIdSet : ScopedToAccountIsEmpty(id))
    /\ [][\A id \in AccountIds :
             (id \in AccountIdSet /\ id \notin AccountIdSet') =>
                 /\ \A r \in cashflow' : r.account_id # id
                 /\ {r \in cashflow' : r.account_id # id}
                       = {r \in cashflow : r.account_id # id}]_vars

\* C4: account 1 was deleted and fewer rows are stored than were inserted,
\* while account 2 keeps a row.
C4_Witness ==
    /\ schema = "design"
    /\ AccountIdSet = {2}
    /\ nextId = MaxRows + 1
    /\ Cardinality(cashflow) = 1
    /\ \A r \in cashflow : r.account_id = 2 /\ r.txn_type = "debit"

\* C5: for any filter scope, total_credits + total_debits is the sum of
\* amount over the rows in scope, and the credit and debit counts add up to
\* the number of rows in scope.
C5_CreditsAndDebitsPartition ==
    \A q \in DashboardQueries :
        LET d == dashboardSuper(q)
            rows == {r \in cashflow : ScopeMatches(r, q)}
        IN /\ d.balance_summary.total_credits + d.balance_summary.total_debits
                = SumOver(rows, [r \in cashflow |-> r.amount])
           /\ d.total_counts.total_credits_count + d.total_counts.total_debits_count
                = d.total_counts.total_cashflows

(***************************************************************************)
(* Claims about the filtering CashFlowPage, under SpecList.                *)
(***************************************************************************)
\* tx satisfies every filter of flt that is set
PassesAll(flt, tx) ==
    /\ flt.account_id # "" => PassesAccount(flt, tx)
    /\ flt.txn_type # "" => PassesType(flt, tx)
    /\ flt.category # <<>> => PassesCategory(flt, tx)

\* the rows of sequence data that satisfy every filter of flt that is set
AllOf(flt, data) ==
    LET all(tx) == PassesAll(flt, tx) IN SelectSeq(data, all)

\* the number of filters of flt that are set
FiltersSet(flt) ==
    Cardinality({k \in DOMAIN flt : flt[k] # NoFilters[k]})

\* C1: the total of a listing is the number of rows that match the filters
\* the rows shown were selected with.
C1_TotalCountsFilteredRows ==
    lastFetch # NoFetch =>
        total = Cardinality({r \in lastFetch.snap : PassesAll(lastFetch.filters, r)})

\* what the page shows for the rows skip+1 .. skip+k under the filters flt
PageShown(flt, skip, k) ==
    ApplyFilters(flt, cashflowList(listCashFlow("truthy", NoArgs), skip, k).data)

RECURSIVE PagesUntilEmpty(_, _, _)
\* the pages (skip, k), (skip + k, k), ... up to the first empty one, joined
PagesUntilEmpty(flt, skip, k) ==
    IF PageShown(flt, skip, k) = <<>> THEN <<>>
    ELSE PageShown(flt, skip, k) \o PagesUntilEmpty(flt, skip + k, k)

\* C2: for the filters of a listing and the page length k the page asks
\* for, the consecutive pages of k rows up to the first empty page, joined,
\* are the full filtered result set in order.
C2_PagesReconstructResultSet ==
    lastFetch # NoFetch =>
        PagesUntilEmpty(lastFetch.filters, 0, lastFetch.limit)
            = AllOf(lastFetch.filters, Ordered(cashflow))

\* one filter applied alone to data, as fetchTransactions applies it
Stage(key, flt, data) ==
    LET pass(tx) == CASE key = "account_id" -> PassesAccount(flt, tx)
                      [] key = "txn_type" -> PassesType(flt, tx)
                      [] key = "category" -> PassesCategory(flt, tx)
    IN IF flt[key] # NoFilters[key] THEN SelectSeq(data, pass) ELSE data

\* the orders the three filters can be applied in
FilterOrders ==
    {o \in [1..3 -> DOMAIN NoFilters] : \A i, j \in 1..3 : i # j => o[i] # o[j]}

\* C6: the rows shown are the rows of the response that satisfy every filter
\* that is set, and applying the filters in any order selects the same rows.
C6_FiltersCombineAsAnd ==
    lastFetch # NoFetch =>
        /\ transactions = AllOf(lastFetch.filters, lastFetch.resp.data)
        /\ \A o \in FilterOrders :
              transactions =
                  Stage(o[3], lastFetch.filters,
                      Stage(o[2], lastFetch.filters,
                          Stage(o[1], lastFetch.filters, lastFetch.resp.data)))

\* C6: a listing under at least two filters whose response holds a row that
\* is shown and a row that passes one of the filters and fails another.
C6_Witness ==
    /\ lastFetch # NoFetch
    /\ FiltersSet(lastFetch.filters) >= 2
    /\ transactions # <<>>
    /\ \E i \in DOMAIN lastFetch.resp.data :
          LET tx == lastFetch.resp.data[i]
          IN /\ lastFetch.filters.account_id # ""
             /\ lastFetch.filters.txn_type # ""
             /\ ~PassesAccount(lastFetch.filters, tx)
             /\ PassesType(lastFetch.filters, tx)

\* C7: a row passes the category filter c if and only if its category
\* equals c.
C7_CategoryFilterIsExact ==
    (lastFetch # NoFetch /\ lastFetch.filters.category # <<>>) =>
        \A i \in DOMAIN lastFetch.resp.data :
            LET tx == lastFetch.resp.data[i]
                others == [lastFetch.filters EXCEPT !.category = <<>>]
            IN (\E j \in DOMAIN transactions : transactions[j] = tx)
                  <=> (PassesAll(others, tx)
                        /\ tx.category = Some(lastFetch.filters.category))

\* C9: a page never has more than limit rows: no response holds more rows
\* than its request's limit, and no more than PAGE_SIZE rows are displayed.
C9_PageWithinLimit ==
    /\ Len(transactions) <= PAGE_SIZE
    /\ \A req \in BagToSet(inflight) :
          req.resp # NoResponse => Len(req.resp.data) <= req.limit
    /\ lastFetch # NoFetch => Len(lastFetch.resp.data) <= lastFetch.limit

\* C9: a full page is displayed while more rows than one page exist.
C9_Witness ==
    /\ lastFetch # NoFetch
    /\ Len(transactions) = PAGE_SIZE
    /\ total > PAGE_SIZE

(***************************************************************************)
(* Claims about listCashFlow, under SpecApi.                               *)
(***************************************************************************)
\* the filters object holds no value for key: not given, null or empty
Unset(key, args) == args[key].tag # "string" \/ args[key].value = EmptyText(key)

\* the filters object without the keys that hold no value
WithoutUnset(args) ==
    [key \in FilterKeys |-> IF Unset(key, args) THEN Absent(key) ELSE args[key]]

\* C8: when a filter value is empty, null or not given, the query string
\* listCashFlow sends has no parameter for that key, and the request and its
\* response are those of the call without the key.
C8_AbsentFilterSendsNoConstraint ==
    lastFetch.kind = "call" =>
        /\ \A key \in FilterKeys :
              Unset(key, lastFetch.args) => key \notin DOMAIN lastFetch.params
        /\ lastFetch.params = listCashFlow(lastFetch.variant, WithoutUnset(lastFetch.args))
        /\ lastFetch.resp =
              cashflowList(listCashFlow(lastFetch.variant, WithoutUnset(lastFetch.args)),
                           lastFetch.skip, lastFetch.limit)

\* C8, for the second listCashFlow alone
C8_TruthyVariantSendsNoConstraint ==
    (lastFetch.kind = "call" /\ lastFetch.variant = "truthy") =>
        /\ \A key \in FilterKeys :
              Unset(key, lastFetch.args) => key \notin DOMAIN lastFetch.params
        /\ lastFetch.resp =
              cashflowList(listCashFlow("truthy", WithoutUnset(lastFetch.args)),
                           lastFetch.skip, lastFetch.limit)

(***************************************************************************)
(* Claims about the estimating CashFlowPage, under SpecEst.                *)
(***************************************************************************)
\* the skip of list request req is at or past the end of the rows it was
\* answered from
SkipBeyondRows(req) == req.skip >= Cardinality(req.snap)

\* C10: a list request whose skip is at or past the number of rows is
\* answered with an empty page and no error, and the page takes it as the
\* end of the rows: nothing is displayed for it and the total is its skip.
C10_SkipBeyondRowsIsEmptyPage ==
    /\ \A req \in BagToSet(inflight) :
          (req.kind \in {"page", "probe"} /\ req.resp # NoResponse
                /\ SkipBeyondRows(req)) =>
              req.resp.status = "ok" /\ req.resp.data = <<>>
    /\ (lastFetch.kind \in {"page", "probe"} /\ SkipBeyondRows(lastFetch)) =>
          /\ lastFetch.resp.status = "ok"
          /\ lastFetch.resp.data = <<>>
          /\ total = lastFetch.skip
          /\ lastFetch.kind = "page" => transactions = <<>>

\* C10: the only row of page 2 was deleted and page 2 fetched again: the
\* request skips as many rows as are left.
C10_Witness ==
    /\ lastFetch.kind = "page"
    /\ lastFetch.skip = PAGE_SIZE
    /\ Cardinality(lastFetch.snap) = PAGE_SIZE
    /\ toast = "Transaction deleted"
    /\ page = 2
    /\ ~loading

(***************************************************************************)
(* Claims about the order of a listing, under SpecList.                    *)
(***************************************************************************)
\* the rows of sequence s are in strictly descending (created_at, id) order
Descending(s) ==
    \A i, j \in DOMAIN s :
        i < j => \/ s[i].created_at > s[j].created_at
                 \/ s[i].created_at = s[j].created_at /\ s[i].id > s[j].id

\* list requests r1 and r2 ask the same query of the same table contents
SameQuery(r1, r2) ==
    /\ r1.params = r2.params
    /\ r1.skip = r2.skip
    /\ r1.limit = r2.limit
    /\ r1.snap = r2.snap

\* C11: the rows of every listing are ordered by created_at descending with
\* ties broken by id descending, the page displays them in that order, and
\* two executions of the same query on the same table contents are answered
\* with the same rows in the same order.
C11_ListingOrderIsDeterministic ==
    /\ Descending(transactions)
    /\ \A r1 \in BagToSet(inflight) :
          r1.resp # NoResponse =>
              /\ Descending(r1.resp.data)
              /\ \A r2 \in BagToSet(inflight) :
                    (r2.resp # NoResponse /\ SameQuery(r1, r2)) => r1.resp = r2.resp
              /\ (lastFetch # NoFetch /\ SameQuery(r1, lastFetch)) =>
                    r1.resp = lastFetch.resp
    /\ lastFetch # NoFetch => Descending(lastFetch.resp.data)

\* C11: the same query was executed twice, and its rows include two with
\* the same created_at.
C11_Witness ==
    /\ lastFetch # NoFetch
    /\ Len(lastFetch.resp.data) >= 2
    /\ lastFetch.resp.data[1].created_at = lastFetch.resp.data[2].created_at
    /\ transactions = lastFetch.resp.data
    /\ \E r1 \in BagToSet(inflight) : r1.resp # NoResponse /\ SameQuery(r1, lastFetch)

(***************************************************************************)
(* Claims about the dashboard aggregation, under SpecDash.                 *)
(***************************************************************************)
\* the balances of the accounts accts added up, balance by balance
BalanceOf(accts) ==
    SumOver(Balances,
            [b \in Balances |-> b * Cardinality({a \in accts : a.balance = b})])

\* C12: the total_balance of every dashboard response is the sum of balance
\* over all accounts, whatever the filter scope, and two responses computed
\* from the same accounts for different scopes have the same total_balance.
C12_TotalBalanceIgnoresScope ==
    /\ \A req \in BagToSet(inflight) :
          req.resp # NoResponse =>
              /\ req.resp.balance_summary.total_balance = BalanceOf(req.accts)
              /\ (lastFetch.kind = "dashboard" /\ lastFetch.accts = req.accts) =>
                    req.resp.balance_summary.total_balance
                        = lastFetch.resp.balance_summary.total_balance
    /\ lastFetch.kind = "dashboard" =>
          lastFetch.resp.balance_summary.total_balance = BalanceOf(lastFetch.accts)

\* C12: a response for the scope of account 1 follows a response for another
\* scope, and the total balance is more than the balance of account 1.
C12_Witness ==
    /\ lastFetch.kind = "dashboard"
    /\ "account_id" \notin DOMAIN lastFetch.query
    /\ \E req \in BagToSet(inflight) :
          /\ req.resp # NoResponse
          /\ "account_id" \in DOMAIN req.query
          /\ req.query.account_id = 1
          /\ \E a \in req.accts :
                a.id = 1 /\ req.resp.balance_summary.total_balance > a.balance

(***************************************************************************)
(* Further claims about the tables, under Spec.                            *)
(***************************************************************************)
\* C13: a step that creates, edits or deletes cashflow rows leaves the
\* balance of every account that remains as it was, and a step that stores
\* a new or changed account row leaves the cashflow rows as they were.
C13_CashflowWritesKeepBalances ==
    [][/\ cashflow' # cashflow =>
             \A a \in accounts, b \in accounts' : a.id = b.id => a.balance = b.balance
       /\ (\E b \in accounts' : b \notin accounts) => cashflow' = cashflow]_vars

\* C13: a row with an amount is stored for an account, and the account's
\* balance was set apart from it.
C13_Witness ==
    \E a \in accounts, r \in cashflow :
        /\ r.account_id = a.id
        /\ r.amount = 5
        /\ r.txn_type = "credit"
        /\ a.balance = 10
        /\ nextId = MaxRows + 1
        /\ Cardinality(cashflow) = 1

(***************************************************************************)
(* Further claims about the dashboard, under SpecDash.                     *)
(***************************************************************************)
\* the rows of table contents snap in the scope q
InScope(snap, q) == {r \in snap : ScopeMatches(r, q)}

\* list is the RecentCount newest rows of S, newest first
NewestOf(list, S) ==
    /\ Len(list) <= RecentCount
    /\ Len(list) = Min(RecentCount, Cardinality(S))
    /\ \A i \in DOMAIN list : list[i] \in S
    /\ Descending(list)
    /\ \A r \in S :
          (\A i \in DOMAIN list : list[i] # r) =>
              \A i \in DOMAIN list :
                  \/ list[i].created_at > r.created_at
                  \/ list[i].created_at = r.created_at /\ list[i].id > r.id

\* C14: the recent_transactions of every dashboard response, and the rows
\* the component renders from it, are at most RecentCount rows, each a row of
\* the filter scope (so it is counted in total_cashflows), and they are the
\* RecentCount newest rows of the scope in newest-first order.
C14_RecentAreNewestInScope ==
    /\ \A req \in BagToSet(inflight) :
          (req.kind = "dashboard" /\ req.resp # NoResponse) =>
              /\ NewestOf(req.resp.recent_transactions, InScope(req.snap, req.query))
              /\ req.resp.total_counts.total_cashflows
                    = Cardinality(InScope(req.snap, req.query))
    /\ lastFetch.kind = "dashboard" =>
          /\ NewestOf(lastFetch.resp.recent_transactions,
                      InScope(lastFetch.snap, lastFetch.query))
          /\ NewestOf(RecentTransactions(lastFetch.resp.recent_transactions),
                      InScope(lastFetch.snap, lastFetch.query))

\* C14: a response was returned for a scope that holds more than RecentCount
\* rows, some of them created at the same time, and leaves rows out of scope.
C14_Witness ==
    /\ lastFetch.kind = "dashboard"
    /\ Cardinality(InScope(lastFetch.snap, lastFetch.query)) > RecentCount
    /\ Len(RecentTransactions(lastFetch.resp.recent_transactions)) = RecentCount
    /\ \E r, q \in InScope(lastFetch.snap, lastFetch.query) :
          r # q /\ r.created_at = q.created_at

\* C14: a response was returned for a scope that some stored rows are not in.
C14_WitnessScoped ==
    /\ lastFetch.kind = "dashboard"
    /\ InScope(lastFetch.snap, lastFetch.query) # lastFetch.snap
    /\ Len(lastFetch.resp.recent_transactions) >= 2

\* the sums of response resp are zero for every type with no row in rows
AbsentTypeSumsZero(resp, rows) ==
    \A t \in TransactionType :
        (\A r \in rows : r.txn_type # t) =>
            /\ SumField(t) \in DOMAIN resp.balance_summary
            /\ resp.balance_summary[SumField(t)] = 0

\* C15: in every dashboard response, the sum of a transaction type that no
\* row of the filter scope has is present in balance_summary and is zero.
C15_AbsentTypeSumsToZero ==
    /\ \A req \in BagToSet(inflight) :
          (req.kind = "dashboard" /\ req.resp # NoResponse) =>
              AbsentTypeSumsZero(req.resp, InScope(req.snap, req.query))
    /\ lastFetch.kind = "dashboard" =>
          AbsentTypeSumsZero(lastFetch.resp, InScope(lastFetch.snap, lastFetch.query))

\* C15: a response was returned for a scope that holds credits and no debit,
\* while the table holds debits outside the scope.
C15_Witness ==
    /\ lastFetch.kind = "dashboard"
    /\ \E r \in lastFetch.snap : r.txn_type = "debit" /\ r.amount > 0
    /\ \A r \in InScope(lastFetch.snap, lastFetch.query) : r.txn_type = "credit"
    /\ lastFetch.resp.balance_summary.total_credits > 0
    /\ lastFetch.resp.balance_summary.total_debits = 0

C17_EveryRowHasATransactionType ==
    \A r \in cashflow : r.txn_type \in TransactionType

\* C18: every stored cashflow row has an amount that is strictly positive.
C18_EveryAmountIsPositive ==
    \A r \in cashflow : r.amount > 0

(***************************************************************************)
(* Specification SpecForm: the CashFlowPage with its create form and its   *)
(* Delete buttons, on a CASHFLOW table that starts empty.                  *)
(***************************************************************************)
\* what the create form can hold when Create is pressed: its initial state
\* (account_id 0, txn_type 'credit', amount 0, category ''), and the form
\* filled in for an account
CashFlowForms ==
    {[account_id |-> 0, txn_type |-> "credit", amount |-> 0, category |-> Some(<<>>)]}
        \cup {[account_id |-> a.id, txn_type |-> t, amount |-> 5,
                category |-> Some(<<"a">>)] :
                  a \in SeedAccounts, t \in TransactionType}

\* the status POST /cashflow/add answers with
addCashFlowStatus(d) ==
    IF ~ForeignKeyOk(d.account_id) THEN "referential_error"
    ELSE IF ~CashflowRowOk(d) THEN "validation_error"
    ELSE "ok"

\* handleAdd, up to the await: addCashFlow(form) sends the form
handleAddUpTo(maxId) ==
    \E form \in CashFlowForms :
        /\ nextId <= maxId
        /\ inflight' = inflight (+)
              SetToBag({[kind |-> "add", body |-> form, page |-> page,
                        resp |-> NoResponse]})
        /\ UNCHANGED <<dbVars, editVars, page, filters, transactions, total, loading,
                       toast, lastFetch>>

\* handleAdd, on a table that holds at most MaxRows rows
handleAdd == handleAddUpTo(MaxRows)

\* the server carries out a create request that is in flight
ServeAdd ==
    \E req \in BagToSet(inflight) :
        /\ req.kind = "add"
        /\ req.resp = NoResponse
        /\ addCashFlowUpTo(req.body, MaxSeedRows + 1)
        /\ inflight' = (inflight (-) SetToBag({req})) (+)
              SetToBag({[req EXCEPT !.resp = [status |-> addCashFlowStatus(req.body)]]})
        /\ UNCHANGED <<editVars, page, filters, transactions, total, loading, toast,
                       lastFetch>>

\* handleAdd, from the await on: res.json() resolves with whatever body the
\* server answered, the status is not looked at; the toast, setPage(1) and
\* fetchTransactions() of the render the button was pressed in, which asks
\* for the page of that render; when setPage(1) changed the page, the [page]
\* effect of the next render asks for page 1
AddDone ==
    \E req \in BagToSet(inflight) :
        /\ req.kind = "add"
        /\ req.resp # NoResponse
        /\ toast' = "Transaction created"
        /\ page' = 1
        /\ loading' = TRUE
        /\ inflight' = ((inflight (-) SetToBag({req})) (+)
              SetToBag({ListRequest("list", RequestSkip(req.page), RequestLimit, filters)}))
              (+) (IF page # 1
                   THEN SetToBag({ListRequest("list", RequestSkip(1), RequestLimit, filters)})
                   ELSE EmptyBag)
        /\ lastFetch' = req
        /\ UNCHANGED <<dbVars, editVars, filters, transactions, total>>

\* handleAdd, when the await rejects (the request or its response is lost)
AddFail ==
    \E req \in BagToSet(inflight) :
        /\ req.kind = "add"
        /\ inflight' = inflight (-) SetToBag({req})
        /\ toast' = "Failed to create transaction"
        /\ lastFetch' = req
        /\ UNCHANGED <<dbVars, editVars, page, filters, transactions, total, loading>>

\* handleDelete(id), up to the await: the Delete button of a displayed row
handleDelete ==
    \E i \in DOMAIN transactions :
        /\ inflight' = inflight (+)
              SetToBag({[kind |-> "delete", id |-> transactions[i].id, page |-> page,
                        resp |-> NoResponse]})
        /\ UNCHANGED <<dbVars, editVars, page, filters, transactions, total, loading,
                       toast, lastFetch>>

\* handleDelete, from the await on: the status is not looked at; the toast
\* and fetchTransactions() of the render the button was pressed in
DeleteDone ==
    \E req \in BagToSet(inflight) :
        /\ req.kind = "delete"
        /\ req.resp # NoResponse
        /\ toast' = "Transaction deleted"
        /\ loading' = TRUE
        /\ inflight' = (inflight (-) SetToBag({req})) (+)
              SetToBag({ListRequest("list", RequestSkip(req.page), RequestLimit, filters)})
        /\ lastFetch' = req
        /\ UNCHANGED <<dbVars, editVars, page, filters, transactions, total>>

\* handleDelete, when the await rejects
DeleteFail ==
    \E req \in BagToSet(inflight) :
        /\ req.kind = "delete"
        /\ inflight' = inflight (-) SetToBag({req})
        /\ toast' = "Failed to delete transaction"
        /\ lastFetch' = req
        /\ UNCHANGED <<dbVars, editVars, page, filters, transactions, total, loading>>

InitForm ==
    /\ schema \in Schemas
    /\ accounts = SeedAccounts
    /\ cashflow = {}
    /\ nextId = 1
    /\ now = 0
    /\ Mounted

\* In SpecForm the user presses a button when no request is in flight.
NextForm ==
    \/ ServeList
    \/ FetchDone
    \/ FetchFail
    \/ Idle /\ handleAdd
    \/ ServeAdd
    \/ AddDone
    \/ AddFail
    \/ Idle /\ handleDelete
    \/ ServeDelete
    \/ DeleteDone
    \/ DeleteFail

SpecForm == InitForm /\ [][NextForm]_vars

(***************************************************************************)
(* Specification SpecPaged: the filtering CashFlowPage, opened on a table  *)
(* of up to MaxSeedRows rows and used through its pagination bar, its      *)
(* create form and its Delete buttons. The filters are left alone.         *)
(***************************************************************************)
\* the tables the page is opened on: n rows of one kind
PagedTables ==
    {SeedTable([i \in 1..n |-> CHOOSE k \in SeedKinds :
                                  k.account_id = 1 /\ k.txn_type = "credit"]) :
        n \in 0..MaxSeedRows}

InitPaged ==
    /\ schema = "design"
    /\ accounts = SeedAccounts
    /\ cashflow \in PagedTables
    /\ nextId = Cardinality(cashflow) + 1
    /\ now = 1
    /\ Mounted

\* In SpecPaged the user touches the page when no request is in flight, and
\* creates one transaction, in a table that was opened with MaxSeedRows rows.
NextPaged ==
    \/ ServeList
    \/ FetchDone
    \/ FetchFail
    \/ Idle /\ PreviousPage
    \/ Idle /\ NextPage
    \/ Idle /\ PageLink
    \/ Idle /\ nextId > MaxSeedRows /\ handleAddUpTo(MaxSeedRows + 1)
    \/ ServeAdd
    \/ AddDone
    \/ AddFail
    \/ Idle /\ handleDelete
    \/ ServeDelete
    \/ DeleteDone
    \/ DeleteFail

SpecPaged == InitPaged /\ [][NextPaged]_vars

\* SpecPaged, when the promise of every list request settles: fetch resolves
\* once the response has arrived and rejects when it is lost, so a call of
\* fetchTransactions that waits is resumed
SpecPagedFair == SpecPaged /\ WF_vars(FetchDone \/ FetchFail)

(***************************************************************************)
(* Specification SpecEdit: the filtering CashFlowPage and its edit dialog. *)
(***************************************************************************)
\* the Pencil button of a displayed row: setEditId(tx.id); setEditForm(tx)
StartEdit ==
    \E i \in DOMAIN transactions :
        /\ editId' = Some(transactions[i].id)
        /\ editForm' = transactions[i]
        /\ UNCHANGED <<dbVars, page, filters, transactions, total, loading,
                       inflight, toast, lastFetch>>

\* the object spread {...f, [key]: value}
Spread(f, key, value) ==
    [k \in DOMAIN f \cup {key} |-> IF k = key THEN value ELSE f[k]]

\* the Account ID input of the dialog, which is rendered while editId is
\* not null: setEditForm(f => ({...f, account_id: Number(e.target.value)}))
ChangeEditForm ==
    \E a \in {0, 2} :
        /\ editId # None
        /\ editForm' = Spread(editForm, "account_id", a)
        /\ UNCHANGED <<dbVars, editId, page, filters, transactions, total, loading,
                       inflight, toast, lastFetch>>

\* the Cancel button and onOpenChange: setEditId(null)
CancelEdit ==
    /\ editId # None
    /\ editId' = None
    /\ UNCHANGED <<dbVars, editForm, page, filters, transactions, total, loading,
                   inflight, toast, lastFetch>>

\* handleEdit, up to the await: it returns when editId is null, and
\* otherwise editCashFlow(editId, editForm) sends the form
handleEdit ==
    IF editId = None
    THEN UNCHANGED vars
    ELSE /\ inflight' = inflight (+)
               SetToBag({[kind |-> "edit", id |-> editId[1], body |-> editForm,
                         page |-> page, resp |-> NoResponse]})
         /\ UNCHANGED <<dbVars, editVars, page, filters, transactions, total,
                        loading, toast, lastFetch>>

\* the status PATCH /cashflow/{id} answers with
editCashFlowStatus(id, d) ==
    IF ~\E r \in cashflow : r.id = id THEN "not_found"
    ELSE LET q == Patch(CHOOSE r \in cashflow : r.id = id, d)
         IN IF ~ForeignKeyOk(q.account_id) THEN "referential_error"
            ELSE IF ~CashflowRowOk(q) THEN "validation_error"
            ELSE "ok"

\* the server carries out an edit request that is in flight
ServeEdit ==
    \E req \in BagToSet(inflight) :
        /\ req.kind = "edit"
        /\ req.resp = NoResponse
        /\ editCashFlow(req.id, req.body)
        /\ inflight' = (inflight (-) SetToBag({req})) (+)
              SetToBag({[req EXCEPT !.resp =
                                       [status |-> editCashFlowStatus(req.id, req.body)]]})
        /\ UNCHANGED <<editVars, page, filters, transactions, total, loading, toast,
                       lastFetch>>

\* handleEdit, from the await on: res.json() resolves with whatever body the
\* server answered, the status is not looked at; the toast, setEditId(null),
\* setEditForm({}) and fetchTransactions() of the render Save was pressed in
EditDone ==
    \E req \in BagToSet(inflight) :
        /\ req.kind = "edit"
        /\ req.resp # NoResponse
        /\ toast' = "Transaction updated"
        /\ editId' = None
        /\ editForm' = NoEditForm
        /\ loading' = TRUE
        /\ inflight' = (inflight (-) SetToBag({req})) (+)
              SetToBag({ListRequest("list", RequestSkip(req.page), RequestLimit, filters)})
        /\ lastFetch' = req
        /\ UNCHANGED <<dbVars, page, filters, transactions, total>>

\* handleEdit, when the await rejects (the request or its response is lost)
EditFail ==
    \E req \in BagToSet(inflight) :
        /\ req.kind = "edit"
        /\ inflight' = inflight (-) SetToBag({req})
        /\ toast' = "Failed to update transaction"
        /\ lastFetch' = req
        /\ UNCHANGED <<dbVars, editVars, page, filters, transactions, total, loading>>

InitEdit ==
    /\ schema = "design"
    /\ accounts = SeedAccounts
    /\ cashflow \in PagedTables
    /\ nextId = Cardinality(cashflow) + 1
    /\ now = 1
    /\ Mounted

\* In SpecEdit the user touches the page when no request is in flight.
NextEdit ==
    \/ ServeList
    \/ FetchDone
    \/ FetchFail
    \/ Idle /\ StartEdit
    \/ Idle /\ ChangeEditForm
    \/ Idle /\ CancelEdit
    \/ Idle /\ handleEdit
    \/ ServeEdit
    \/ EditDone
    \/ EditFail

SpecEdit == InitEdit /\ [][NextEdit]_vars

\* the messages the handlers show for a request that succeeded
SuccessToasts == {"Transaction created", "Transaction deleted"}

\* the messages the handlers show for a request that failed
FailureToasts == {"Failed to create transaction", "Failed to delete transaction"}

\* C19: when the create or delete request settled last was rejected by the
\* server, the message on the page is that request's failure message, and
\* no request to write is in flight again.
C19_RejectionIsReported ==
    (lastFetch.kind \in {"add", "delete"} /\ lastFetch.resp.status \notin {"ok", "pending"}) =>
        /\ toast \in FailureToasts
        /\ toast \notin SuccessToasts
        /\ \A req \in BagToSet(inflight) : req.kind \notin {"add", "delete"}

\* C20: while a create request naming an account_id that no account has
\* (the form's initial 0 among them) is waiting for the server, no step
\* changes the accounts or the cashflow rows, and the answer the server
\* gives it is a referential error.
C20_UnknownAccountIsRejected ==
    [][\A req \in BagToSet(inflight) :
          (/\ req.kind = "add"
           /\ req.resp = NoResponse
           /\ \A a \in accounts : a.id # req.body.account_id) =>
              /\ cashflow' = cashflow
              /\ accounts' = accounts
              /\ \A served \in BagToSet(inflight') :
                    (served.kind = "add" /\ served.resp # NoResponse) =>
                        served.resp.status = "referential_error"]_vars

\* C20: the form's initial account_id 0 was sent while rows were stored, and
\* the request was answered.
C20_Witness ==
    /\ lastFetch.kind = "add"
    /\ lastFetch.body.account_id = 0
    /\ lastFetch.resp.status = "referential_error"
    /\ Cardinality(cashflow) = 1
    /\ nextId = 2
    /\ Cardinality(accounts) = 2

\* a delete request for a row that was gone already settled last
C19_DeleteNotFoundSettled ==
    lastFetch.kind = "delete" /\ lastFetch.resp.status = "not_found"

(***************************************************************************)
(* Claims about validation, under SpecApi.                                 *)
(***************************************************************************)
\* the request asks for a transaction type that is not credit or debit
AsksInvalidType(req) ==
    \/ /\ req.kind = "call"
       /\ "txn_type" \in DOMAIN req.params
       /\ req.params.txn_type \notin TransactionType
    \/ /\ req.kind = "dashboard"
       /\ "txn_type" \in DOMAIN req.query
       /\ req.query.txn_type \notin TransactionType

\* the answer is a validation error that carries no page and no aggregate
IsValidationError(resp) ==
    /\ resp.status = "validation_error"
    /\ "data" \in DOMAIN resp => resp.data = <<>>
    /\ "total_counts" \notin DOMAIN resp
    /\ "balance_summary" \notin DOMAIN resp
    /\ "recent_transactions" \notin DOMAIN resp

\* C21: every answer to a listing or dashboard request whose txn_type is not
\* credit or debit is a validation error, with no page of rows and no
\* aggregate in it.
C21_InvalidTypeIsRejected ==
    /\ \A req \in BagToSet(inflight) :
          (AsksInvalidType(req) /\ req.resp # NoResponse) => IsValidationError(req.resp)
    /\ (lastFetch.kind \in {"call", "dashboard"} /\ AsksInvalidType(lastFetch)) =>
          IsValidationError(lastFetch.resp)

\* C21: listCashFlow returned for a filters object whose txn_type is another
\* word, on a table that holds rows.
C21_Witness ==
    /\ lastFetch.kind = "call"
    /\ "txn_type" \in DOMAIN lastFetch.params
    /\ lastFetch.params.txn_type = "transfer"
    /\ lastFetch.snap # {}

\* C21: getDashboardStats returned for a body whose txn_type is another word.
C21_WitnessDashboard ==
    /\ lastFetch.kind = "dashboard"
    /\ "txn_type" \in DOMAIN lastFetch.query
    /\ lastFetch.query.txn_type = "Credit"
    /\ lastFetch.snap # {}

(***************************************************************************)
(* Claims about the pages' filters and pagination.                         *)
(***************************************************************************)
\* the step sends a list request with the given skip for the filters flt
Sends(skip, flt) ==
    \E req \in BagToSet(inflight') :
        /\ req.kind \in {"list", "accounts"}
        /\ req.skip = skip
        /\ req.filters = flt
        /\ req.resp = NoResponse
        /\ CopiesIn(req, inflight') > CopiesIn(req, inflight)

\* C22: a step that changes a filter value (Clear included) leaves the page
\* number at 1 and sends a list request with skip = 0 for the new filters,
\* and the page number then moves only in a step that sends the request
\* for the page it moves to.
C22_FilterChangeResetsPage ==
    [][/\ filters' # filters => (page' = 1 /\ Sends(0, filters'))
       /\ page' # page => Sends(RequestSkip(page'), filters')]_vars

\* C22: a filter was changed while page 2 was displayed: the rows shown are
\* those fetched for page 2, and the request for the new filters is out.
C22_Witness ==
    /\ page = 1
    /\ filters # NoFilters
    /\ lastFetch.kind \in {"list", "accounts"}
    /\ lastFetch.skip = RequestSkip(2)
    /\ lastFetch.filters # filters
    /\ \E req \in BagToSet(inflight) : req.skip = 0 /\ req.filters = filters

(***************************************************************************)
(* The Accounts page (paginated): fetchAccounts is a useCallback over      *)
(* [page, filters], and both effects depend on it.                         *)
(***************************************************************************)
\* GET /accounts/list?skip=&limit=: a page of the accounts in the order of
\* their ids, and their number
accountsList(skip, limit) ==
    LET RECURSIVE ById(_)
        ById(S) == IF S = {} THEN <<>>
                   ELSE LET first == CHOOSE a \in S : \A b \in S : a.id <= b.id
                        IN <<first>> \o ById(S \ {first})
    IN [status |-> "ok", data |-> Slice(ById(accounts), skip, limit),
        total_count |-> Cardinality(accounts)]

\* the filters state of the Accounts page with nothing set
NoAccountFilters ==
    [bank_name |-> <<>>, account_type |-> "", currency |-> "", holder_name |-> <<>>]

\* the values the filter inputs of the Accounts page are given
AccountFilterValues ==
    [bank_name : {<<>>, <<"a">>}, account_type : {""}, currency : {"", "INR"},
     holder_name : {<<>>}]

\* the client-side filtering of fetchAccounts
ApplyAccountFilters(flt, data) ==
    LET byBank(acc) == includes(toLowerCase(acc.bank_name), toLowerCase(flt.bank_name))
        byType(acc) == acc.account_type = flt.account_type
        byCurrency(acc) == acc.currency = flt.currency
        byHolder(acc) ==
            includes(toLowerCase(acc.holder_name), toLowerCase(flt.holder_name))
        d1 == IF flt.bank_name # <<>> THEN SelectSeq(data, byBank) ELSE data
        d2 == IF flt.account_type # "" THEN SelectSeq(d1, byType) ELSE d1
        d3 == IF flt.currency # "" THEN SelectSeq(d2, byCurrency) ELSE d2
        d4 == IF flt.holder_name # <<>> THEN SelectSeq(d3, byHolder) ELSE d3
    IN d4

\* the request listAccounts(skip, PAGE_SIZE) sends, made by the fetchAccounts
\* of a render whose state is page pg and filters flt
fetchAccounts(pg, flt) ==
    SetToBag({[kind |-> "accounts", skip |-> RequestSkip(pg), limit |-> PAGE_SIZE,
               filters |-> flt, resp |-> NoResponse, snap |-> {}]})

\* the effects after a render in which page or filters changed to pg and
\* flt. fetchAccounts is a new function, so both effects run: the first
\* fetches; the second fetches again when the page is 1, and otherwise sets
\* the page to 1, which renders again and runs both effects for page 1.
AccountsEffects(pg, flt) ==
    /\ page' = 1
    /\ filters' = flt
    /\ loading' = TRUE
    /\ inflight' =
          IF pg = 1
          THEN inflight (+) fetchAccounts(1, flt) (+) fetchAccounts(1, flt)
          ELSE inflight (+) fetchAccounts(pg, flt)
                        (+) fetchAccounts(1, flt) (+) fetchAccounts(1, flt)

\* the server answers a listAccounts request that is in flight
ServeAccounts ==
    \E req \in BagToSet(inflight) :
        /\ req.kind = "accounts"
        /\ req.resp = NoResponse
        /\ inflight' = (inflight (-) SetToBag({req})) (+)
              SetToBag({[req EXCEPT !.resp = accountsList(req.skip, req.limit),
                                    !.snap = accounts]})
        /\ UNCHANGED <<dbVars, editVars, page, filters, transactions, total,
                       loading, toast, lastFetch>>

\* fetchAccounts, from the await on, when the response has arrived
AccountsFetchDone ==
    \E req \in BagToSet(inflight) :
        /\ req.kind = "accounts"
        /\ req.resp # NoResponse
        /\ inflight' = inflight (-) SetToBag({req})
        /\ transactions' = ApplyAccountFilters(req.filters, req.resp.data)
        /\ total' = req.resp.total_count
        /\ loading' = FALSE
        /\ lastFetch' = req
        /\ UNCHANGED <<dbVars, editVars, page, filters, toast>>

\* fetchAccounts, from the await on, when fetch rejects
AccountsFetchFail ==
    \E req \in BagToSet(inflight) :
        /\ req.kind = "accounts"
        /\ inflight' = inflight (-) SetToBag({req})
        /\ toast' = "Failed to fetch accounts"
        /\ loading' = FALSE
        /\ UNCHANGED <<dbVars, editVars, page, filters, transactions, total, lastFetch>>

\* handleFilterChange(key, value) of the Accounts page
AccountsHandleFilterChange ==
    \E key \in DOMAIN NoAccountFilters, flt \in AccountFilterValues :
        /\ ~loading
        /\ filters[key] # flt[key]
        /\ AccountsEffects(page, [filters EXCEPT ![key] = flt[key]])
        /\ UNCHANGED <<dbVars, editVars, transactions, total, toast, lastFetch>>

\* clearFilters of the Accounts page: the object it sets is a new one
AccountsClearFilters ==
    /\ ~loading
    /\ AccountsEffects(page, NoAccountFilters)
    /\ UNCHANGED <<dbVars, editVars, transactions, total, toast, lastFetch>>

\* setPage(pageNum) from a control of the pagination bar of the Accounts
\* page, and the effects that follow when the page changed
AccountsSelectPage(pageNum) ==
    /\ ~loading
    /\ total > PAGE_SIZE
    /\ pageNum # page
    /\ AccountsEffects(pageNum, filters)
    /\ UNCHANGED <<dbVars, editVars, transactions, total, toast, lastFetch>>

\* PaginationNext of the Accounts page
AccountsNextPage == page < Ceil(total, PAGE_SIZE) /\ AccountsSelectPage(page + 1)

\* PaginationLink of the Accounts page
AccountsPageLink ==
    \E pageNum \in 1..Ceil(total, PAGE_SIZE) :
        /\ \/ pageNum = 1
           \/ pageNum = Ceil(total, PAGE_SIZE)
           \/ pageNum >= page - 2 /\ pageNum <= page + 2
        /\ AccountsSelectPage(pageNum)

(***************************************************************************)
(* Specification SpecAcct: the Accounts page opened on a table of accounts *)
(* and used through its filters and its pagination bar.                    *)
(***************************************************************************)
\* a table of n accounts as the Accounts page lists them
AccountRows(n) ==
    {[id |-> i, bank_account_no |-> toString(i),
      bank_name |-> IF i % 2 = 1 THEN <<"a">> ELSE <<"B", "b">>,
      account_type |-> "savings", holder_name |-> <<"b">>,
      currency |-> IF i % 3 = 0 THEN "USD" ELSE "INR", balance |-> 0] : i \in 1..n}

\* the component mounts with its initial state; both effects run
InitAcct ==
    /\ schema = "design"
    /\ accounts \in {AccountRows(n) : n \in 0..MaxSeedAccounts}
    /\ cashflow = {}
    /\ nextId = 1
    /\ now = 0
    /\ editId = None
    /\ editForm = NoEditForm
    /\ page = 1
    /\ filters = NoAccountFilters
    /\ transactions = <<>>
    /\ total = 0
    /\ loading = TRUE
    /\ inflight = fetchAccounts(1, NoAccountFilters) (+) fetchAccounts(1, NoAccountFilters)
    /\ toast = "none"
    /\ lastFetch = NoFetch

\* In SpecAcct the user touches the page when no request is in flight.
NextAcct ==
    \/ ServeAccounts
    \/ AccountsFetchDone
    \/ AccountsFetchFail
    \/ Idle /\ AccountsHandleFilterChange
    \/ Idle /\ AccountsClearFilters
    \/ Idle /\ AccountsNextPage
    \/ Idle /\ AccountsPageLink

SpecAcct == InitAcct /\ [][NextAcct]_vars

\* C22, on the Accounts page: the page number is 1 in every state, a filter
\* change included.
C22_AccountsPageStaysAtOne == page = 1

\* C23: on the Accounts page, a step in which the user selects page n > 1
\* (the step that sends the request with skip = (n - 1) * PAGE_SIZE) ends
\* with the page number at n.
C23_SelectedPageIsKept ==
    [][\A n \in 2..MaxSeedAccounts :
          Sends(RequestSkip(n), filters') => page' = n]_vars

\* C24: the page number lies between 1 and max(1, ceil(total / PAGE_SIZE))
\* in every reachable state of the listing page, also after deletions have
\* made total smaller.
C24_PageWithinRange ==
    /\ page >= 1
    /\ page <= (IF Ceil(total, PAGE_SIZE) > 1 THEN Ceil(total, PAGE_SIZE) ELSE 1)

\* the step in which the response of list request req is taken up and after
\* which no request is in flight
SettlesLast(req) ==
    /\ req.kind \in {"list", "accounts"}
    /\ req.resp # NoResponse
    /\ req.resp.status = "ok"
    /\ inflight = SetToBag({req})
    /\ inflight' = EmptyBag
    /\ lastFetch' = req

\* the toasts of a list request that failed
FetchFailureToasts == {"Failed to fetch transactions", "Failed to fetch accounts"}

\* C25: when the responses of the list requests in flight have all arrived,
\* in whatever order, the rows and the total displayed are those of the
\* request for the current page and filters: the response taken up last,
\* with no list request having failed since the last message, is the one
\* asked for with the skip of the current page.
C25_LastResponseIsOfCurrentPage ==
    [][\A req \in BagToSet(inflight) :
          SettlesLast(req) /\ toast' \notin FetchFailureToasts
              => /\ req.skip = RequestSkip(page')
                 /\ req.filters = filters'
                 /\ total' = req.resp.total_count]_vars

\* C26: a create that succeeds sets the page to 1, and once the requests it
\* sent have been answered the rows displayed are those of the first page.
C26_CreateShowsFirstPage ==
    [][/\ (\E req \in BagToSet(inflight) :
              /\ req.kind = "add"
              /\ CopiesIn(req, inflight') < CopiesIn(req, inflight)
              /\ toast' = "Transaction created") => page' = 1
       /\ \A req \in BagToSet(inflight) :
              SettlesLast(req) /\ toast' = "Transaction created" /\ page' = 1
                  => req.skip = 0]_vars

\* C27: every fetch the page starts sets loading back to false, whether its
\* request succeeds or fails: while loading is true it becomes false again,
\* and whenever no request is in flight loading is false.
C27_LoadingIsReset ==
    /\ [](Idle => ~loading)
    /\ loading ~> ~loading

\* both requests of the mount have failed
C27_Witness ==
    /\ Idle
    /\ ~loading
    /\ toast = "Failed to fetch transactions"
    /\ lastFetch = NoFetch

\* the step in which a call of the estimating fetchTransactions ends with
\* the rows of its response displayed and its total set
EstFetchSettles ==
    \E req \in BagToSet(inflight) :
        /\ req.resp # NoResponse
        /\ inflight' = inflight (-) SetToBag({req})
        /\ loading /\ ~loading'
        /\ \/ /\ req.kind = "page"
              /\ Len(req.resp.data) < PAGE_SIZE
              /\ transactions' = req.resp.data
              /\ total' = EstimatedTotal(req.skip, Len(req.resp.data), 0)
           \/ /\ req.kind = "probe"
              /\ total' = EstimatedTotal(req.skip - PAGE_SIZE, PAGE_SIZE,
                                         Len(req.resp.data))

\* C28: in the variant that estimates the total, when a fetch of page p has
\* ended the Next control is enabled exactly if the table holds a row beyond
\* page p, and the estimated total is at most the number of rows in the
\* table.
C28_EstimateMatchesTable ==
    [][EstFetchSettles =>
          /\ (page' < Ceil(total', PAGE_SIZE)) <=> (Cardinality(cashflow') > page' * PAGE_SIZE)
          /\ total' <= Cardinality(cashflow')]_vars

\* the step in which edit request req leaves the set of requests in flight
EditSettles(req) ==
    /\ req.kind = "edit"
    /\ CopiesIn(req, inflight') < CopiesIn(req, inflight)

\* C29: Save with no row selected sends no request; an edit that succeeded
\* (the server answered ok and the answer arrived) clears editId and
\* editForm and sends a list request; an edit that failed (the server
\* rejected it, or no answer arrived) leaves editId and editForm as they
\* were.
C29_EditKeepsInputOnFailure ==
    [][/\ editId = None =>
              \A req \in BagToSet(inflight') :
                  req.kind = "edit" => CopiesIn(req, inflight') <= CopiesIn(req, inflight)
       /\ \A req \in BagToSet(inflight) :
              EditSettles(req) =>
                  IF /\ req.resp # NoResponse
                     /\ req.resp.status = "ok"
                     /\ toast' # "Failed to update transaction"
                  THEN /\ editId' = None
                       /\ editForm' = NoEditForm
                       /\ Sends(RequestSkip(page), filters)
                  ELSE UNCHANGED editVars]_vars

\* C30: for a dashboard response of the DashboardStats shape, the numbers
\* the components show are balance_summary.total_balance, total_credits and
\* total_debits, and the icon of each recent row follows the row's txn_type.
C30_ComponentsReadDeclaredFields ==
    (lastFetch.kind = "dashboard" /\ "balance_summary" \in DOMAIN lastFetch.resp) =>
        LET stats == lastFetch.resp
            shown == RecentTransactions(stats.recent_transactions)
        IN /\ DashboardOverview(stats).total_balance
                  = Some(stats.balance_summary.total_balance)
           /\ DashboardOverview(stats).total_income
                  = Some(stats.balance_summary.total_credits)
           /\ DashboardOverview(stats).total_expense
                  = Some(stats.balance_summary.total_debits)
           /\ BalanceChart(stats)[1].value = Some(stats.balance_summary.total_credits)
           /\ BalanceChart(stats)[2].value = Some(stats.balance_summary.total_debits)
           /\ \A i \in DOMAIN shown :
                  (RecentIndicator(shown[i]) = "ArrowUpRight")
                      <=> (shown[i].txn_type = "credit")

=============================================================================
